---- MODULE Spec2Model ----
(***************************************************************************)
(* A model of main.py, the Streamlit dashboard over the SSA baby-name      *)
(* archive: load_name_data (download, per-year parse, derived columns),    *)
(* the year-range filter, the trend tab and the summary tab.               *)
(*                                                                         *)
(* Text is modelled as sequences of one-character strings wherever the     *)
(* code slices or parses it (entry names, the count field of a row).       *)
(* A proportion is the exact fraction <<numerator, denominator>>; the      *)
(* fraction <<0, 0>> is the float NaN that 0/0 and NaN/x produce.          *)
(***************************************************************************)
EXTENDS Integers, Sequences, FiniteSets, TLC

\* ------------------------------------------------------------------ bounds
MaxYear  == 1881    \* last year of the slider and of the archive's entries
MaxCount == 1       \* largest count written in a row
MaxRows  == 2       \* rows in one archive of the small families
NumNames == 11      \* distinct names in an archive of the wide family

\* ------------------------------------------------------- program constants
SliderMin == 1880   \* st.sidebar.slider(..., 1880, 2022, ...)
TopN      == 10     \* .head(10)
YearFrom  == 3      \* file[3:7]
YearTo    == 7

NaN == -1           \* the float NaN read_csv stores for a missing field

Min(a, b) == IF a < b THEN a ELSE b

\* ------------------------------------------------------------------- text
DigitChars == <<"0", "1", "2", "3", "4", "5", "6", "7", "8", "9">>

IsDigit(c) == \E i \in 1..10 : DigitChars[i] = c

DigitVal(c) == (CHOOSE i \in 1..10 : DigitChars[i] = c) - 1

\* str(n) for 0 <= n
RECURSIVE Str(_)
Str(n) == IF n < 10 THEN <<DigitChars[n + 1]>>
          ELSE Str(n \div 10) \o <<DigitChars[(n % 10) + 1]>>

RECURSIVE DigitsValue(_)
DigitsValue(s) == IF s = <<>> THEN 0
                  ELSE 10 * DigitsValue(SubSeq(s, 1, Len(s) - 1)) + DigitVal(s[Len(s)])

\* int(s): the value of a string of decimal digits, ValueError otherwise
ParseInt(s) ==
    IF s # <<>> /\ \A i \in 1..Len(s) : IsDigit(s[i])
    THEN [err |-> "", val |-> DigitsValue(s)]
    ELSE [err |-> "ValueError", val |-> 0]

\* s[a:b]
Slice(s, a, b) == SubSeq(s, a + 1, Min(b, Len(s)))

\* s.endswith(suffix)
EndsWith(s, suffix) ==
    /\ Len(s) >= Len(suffix)
    /\ SubSeq(s, Len(s) - Len(suffix) + 1, Len(s)) = suffix

TxtSuffix == <<".", "t", "x", "t">>

\* the names of the model, in the order sorted() and groupby() give them
NameList == <<"Ava", "Bo", "Cy", "Dee", "Eve", "Fay", "Gus", "Hal", "Ida",
              "LEE", "Mary", "Ned", "Oz", "Pam">>

LowerList == <<"ava", "bo", "cy", "dee", "eve", "fay", "gus", "hal", "ida",
               "lee", "mary", "ned", "oz", "pam">>

\* str.lower() on the names and inputs of the model
Lower(s) ==
    IF \E i \in 1..Len(NameList) : NameList[i] = s
    THEN LowerList[CHOOSE i \in 1..Len(NameList) : NameList[i] = s]
    ELSE CASE s = "Lee" -> "lee"
           [] s = "MARY" -> "mary"
           [] OTHER -> s

\* ---------------------------------------------------------- load_name_data
\* An archive is the sequence of its entries in namelist() order; an entry is
\* [file |-> its name, rows |-> its lines], a line being the sequence of its
\* comma-separated fields <<name, sex, count, ...>>, the count as characters.

Fail(e) == [err |-> e, dtype |-> "", rows |-> <<>>]

\* dtype read_csv infers for the count column: int64 when every field is an
\* integer, float64 when some are missing (NaN), object (strings) otherwise
CountDtype(lines) ==
    IF \E i \in 1..Len(lines) : Len(lines[i]) >= 3 /\ ParseInt(lines[i][3]).err # ""
    THEN "object"
    ELSE IF \E i \in 1..Len(lines) : Len(lines[i]) < 3 THEN "float64"
    ELSE "int64"

\* pd.read_csv(f, header=None): the first line fixes the number of columns, a
\* longer line is a ParserError, a shorter one is padded with NaN.  The cells
\* of an object column are strings; the model keeps the dtype, not the strings.
ReadCsv(lines) ==
    IF lines = <<>> THEN [err |-> "EmptyDataError", ncols |-> 0, cells |-> <<>>]
    ELSE IF \E i \in 1..Len(lines) : Len(lines[i]) > Len(lines[1])
    THEN [err |-> "ParserError", ncols |-> 0, cells |-> <<>>]
    ELSE [err |-> "", ncols |-> Len(lines[1]),
          cells |-> [i \in 1..Len(lines) |->
              [name  |-> lines[i][1],
               sex   |-> lines[i][2],
               count |-> IF Len(lines[i]) >= 3 /\ ParseInt(lines[i][3]).err = ""
                         THEN ParseInt(lines[i][3]).val ELSE NaN]]]

\* the body of the for loop: one entry's frame with its year column
EntryFrame(e) ==
    LET csv == ReadCsv(e.rows)
        yr  == ParseInt(Slice(e.file, YearFrom, YearTo))
    IN  IF csv.err # "" THEN Fail(csv.err)
        ELSE IF csv.ncols # 3 THEN Fail("ValueError")
        ELSE IF yr.err # "" THEN Fail("ValueError")
        ELSE [err |-> "", dtype |-> CountDtype(e.rows),
              rows |-> [i \in 1..Len(csv.cells) |->
                  [name |-> csv.cells[i].name, sex |-> csv.cells[i].sex,
                   count |-> csv.cells[i].count, year |-> yr.val]]]

\* files = [file for file in z.namelist() if file.endswith('.txt')]
TxtEntries(arch) == SelectSeq(arch, LAMBDA e : EndsWith(e.file, TxtSuffix))

RECURSIVE Concat(_)
Concat(frames) == IF frames = <<>> THEN <<>>
                  ELSE Head(frames).rows \o Concat(Tail(frames))

\* .sum() of a count column: NaN is skipped
RECURSIVE SumCount(_)
SumCount(rows) ==
    IF rows = <<>> THEN 0
    ELSE (IF Head(rows).count = NaN THEN 0 ELSE Head(rows).count) + SumCount(Tail(rows))

Group(data, y, s) == SelectSeq(data, LAMBDA r : r.year = y /\ r.sex = s)

\* a running sum over the rows read so far
TransformCumSum(data) ==
    [i \in 1..Len(data) |-> SumCount(Group(SubSeq(data, 1, i), data[i].year, data[i].sex))]

\* a sum grouped by year alone
TransformSumByYear(data) ==
    [i \in 1..Len(data) |->
        SumCount(SelectSeq(data, LAMBDA r : r.year = data[i].year))]

\* data.groupby(['year', 'sex'])['count'].transform('sum')
TransformSum(data) ==
    [i \in 1..Len(data) |-> SumCount(Group(data, data[i].year, data[i].sex))]

\* float division: NaN / x and 0 / 0 are NaN
Div(c, t) == IF c = NaN THEN <<0, 0>> ELSE <<c, t>>

IsNaN(p) == p[2] = 0

\* lines 26-28
Derived(data) ==
    LET sums == TransformSum(data)
    IN  [i \in 1..Len(data) |->
            [idx |-> i - 1, name |-> data[i].name, sex |-> data[i].sex,
             count |-> data[i].count, year |-> data[i].year,
             pct |-> Div(data[i].count, sums[i]),
             total_births |-> sums[i],
             prop |-> Div(data[i].count, sums[i])]]

\* the first entry, in archive order, whose frame cannot be built
FirstError(frames) ==
    LET bad == {i \in 1..Len(frames) : frames[i].err # ""}
    IN  IF bad = {} THEN ""
        ELSE frames[CHOOSE i \in bad : \A j \in bad : i <= j].err

load_name_data(arch) ==
    LET txt    == TxtEntries(arch)
        frames == [i \in 1..Len(txt) |-> EntryFrame(txt[i])]
    IN  IF FirstError(frames) # "" THEN [err |-> FirstError(frames), data |-> <<>>]
        ELSE IF Len(txt) = 0 THEN [err |-> "ValueError", data |-> <<>>]
        ELSE IF \E i \in 1..Len(frames) : frames[i].dtype = "object"
        THEN [err |-> "TypeError", data |-> <<>>]
        ELSE [err |-> "", data |-> Derived(Concat(frames))]

\* ------------------------------------------------------------ query layer
\* a filter that rejects an inverted range
RangeFilterChecked(d, lo, hi) ==
    IF lo > hi THEN [err |-> "ValueError", rows |-> <<>>]
    ELSE [err |-> "", rows |-> SelectSeq(d, LAMBDA r : r.year >= lo /\ r.year <= hi)]

\* a filter whose upper end is open
RangeFilterOpen(d, lo, hi) ==
    [err |-> "", rows |-> SelectSeq(d, LAMBDA r : r.year >= lo /\ r.year < hi)]

\* df[(df['year'] >= year_range[0]) & (df['year'] <= year_range[1])]
RangeFilter(d, lo, hi) ==
    [err |-> "", rows |-> SelectSeq(d, LAMBDA r : r.year >= lo /\ r.year <= hi)]

\* filtered_df[filtered_df['name'].str.lower() == name_input.lower()], or the
\* empty frame when no name is given
NameDf(fdf, ni) ==
    IF ni # "" THEN SelectSeq(fdf, LAMBDA r : Lower(r.name) = Lower(ni)) ELSE <<>>

BySex(d, s) == SelectSeq(d, LAMBDA r : r.sex = s)

\* a condition that forgets the emptiness test
ShouldPlotAny(ndf, pf, pm) == pf \/ pm

\* not name_df.empty and (plot_female or plot_male)
ShouldPlot(ndf, pf, pm) == ndf # <<>> /\ (pf \/ pm)

\* tab1: the frames handed to sns.lineplot (empty when lineplot is not called)
Tab1(fdf, ni, pf, pm) ==
    LET ndf == NameDf(fdf, ni)
    IN  IF ShouldPlot(ndf, pf, pm)
        THEN [out |-> "plot", name_df |-> ndf,
              df_f |-> IF pf THEN BySex(ndf, "F") ELSE <<>>,
              df_m |-> IF pm THEN BySex(ndf, "M") ELSE <<>>]
        ELSE [out |-> "nodata", name_df |-> ndf, df_f |-> <<>>, df_m |-> <<>>]

\* filtered_df['count'].sum() / gender_df['count'].sum()
TotalBirths(sel) == SumCount(sel)

\* one row per (name, sex)
GroupByNameSex(sel) ==
    LET keys == SelectSeq(NameList, LAMBDA n : \E i \in 1..Len(sel) : sel[i].name = n)
        one(n, s) == SelectSeq(sel, LAMBDA r : r.name = n /\ r.sex = s)
        rowsOf(n) == (IF one(n, "F") # <<>> THEN <<[name |-> n, count |-> SumCount(one(n, "F"))]>> ELSE <<>>)
                  \o (IF one(n, "M") # <<>> THEN <<[name |-> n, count |-> SumCount(one(n, "M"))]>> ELSE <<>>)
        RECURSIVE all(_)
        all(ks) == IF ks = <<>> THEN <<>> ELSE rowsOf(Head(ks)) \o all(Tail(ks))
    IN  all(keys)

\* .groupby('name')['count'].sum().reset_index(): one row per name, by name
GroupByName(sel) ==
    LET keys == SelectSeq(NameList, LAMBDA n : \E i \in 1..Len(sel) : sel[i].name = n)
    IN  [k \in 1..Len(keys) |->
            [name  |-> keys[k],
             count |-> SumCount(SelectSeq(sel, LAMBDA r : r.name = keys[k]))]]

Remove(s, i) == SubSeq(s, 1, i - 1) \o SubSeq(s, i + 1, Len(s))

\* the row sort_values puts next: a largest (or smallest) count; among equal
\* counts the sort is free, and tie says which end of the input it takes
PickRow(s, desc, tie) ==
    LET best == {i \in 1..Len(s) : \A j \in 1..Len(s) :
                    IF desc THEN s[j].count <= s[i].count ELSE s[j].count >= s[i].count}
    IN  IF tie = "first" THEN CHOOSE i \in best : \A j \in best : i <= j
        ELSE CHOOSE i \in best : \A j \in best : i >= j

RECURSIVE SortValues(_, _, _)
SortValues(s, desc, tie) ==
    IF s = <<>> THEN <<>>
    ELSE LET i == PickRow(s, desc, tie)
         IN  <<s[i]>> \o SortValues(Remove(s, i), desc, tie)

\* an ascending sort
TopRowsAscending(table, tie) ==
    SubSeq(SortValues(table, FALSE, tie), 1, Min(TopN, Len(table)))

\* summary_df.sort_values(by='count', ascending=False).head(10)
TopRows(table, tie) ==
    SubSeq(SortValues(table, TRUE, tie), 1, Min(TopN, Len(table)))

\* the rows tab2 summarises
Selected(fdf, sg) == IF sg = "Both" THEN fdf ELSE BySex(fdf, sg)

\* the grand total taken over the rows of the table shown
Tab2TotalOfTable(fdf, sg, tie) ==
    LET top == TopRows(GroupByName(Selected(fdf, sg)), tie)
    IN  [total_births |-> SumCount(top), summary_df |-> top]

\* tab2: the grand total and the top-10 table
Tab2(fdf, sg, tie) ==
    LET sel == Selected(fdf, sg)
    IN  [total_births |-> TotalBirths(sel),
         summary_df   |-> TopRows(GroupByName(sel), tie)]

\* --------------------------------------------------------------- archives
Years == SliderMin..MaxYear

Sexes == {"F", "M"}

YobFile(y) == <<"y", "o", "b">> \o Str(y) \o TxtSuffix

ReadMe == <<"N", "a", "t", "i", "o", "n", "a", "l", "R", "e", "a", "d", "M", "e",
            ".", "p", "d", "f">>

\* well-formed lines of one name, and three malformed ones: a line without its
\* count, a line whose count is not a number, a line with a fourth field
LoadRows ==
    {<<"Mary", s, Str(c)>> : s \in Sexes, c \in 0..MaxCount}
    \cup {<<"Mary", "F">>, <<"Mary", "F", <<"a", "b", "c">>>>,
          <<"Mary", "F", Str(MaxCount), <<"x">>>>}

TrendRows == {<<n, s, Str(MaxCount)>> : n \in {"LEE", "Mary"}, s \in Sexes}

FilterRows == {<<"Mary", "F", Str(MaxCount)>>}

RowSeqs(R, n) == UNION {[1..k -> R] : k \in 0..n}

Entries(R, n) ==
    {[file |-> YobFile(y), rows |-> r] : y \in Years, r \in RowSeqs(R, n)}
    \cup {[file |-> ReadMe, rows |-> <<>>]}

\* the archives of at most two entries and at most MaxRows lines
ArchivesOf(R) ==
    {<<>>} \cup {<<e>> : e \in Entries(R, MaxRows)}
    \cup UNION {{<<e1, e2>> : e2 \in Entries(R, MaxRows - Len(e1.rows))} :
                e1 \in Entries(R, MaxRows)}

\* the count written for the i-th name of a wide archive, from 1 to MaxCount + 1
PatternCount(i, a, b) == ((a * i + b) % (MaxCount + 1)) + 1

\* the wide archives: one entry per year, the first holding one line for each
\* of NumNames names (even positions F, odd positions M), plus at most one
\* further line of any name, sex, count and year
WideFree ==
    {<<>>} \cup {<<[name |-> NameList[i], sex |-> s, count |-> c, year |-> y]>> :
                    i \in 1..NumNames, s \in Sexes, c \in 1..MaxCount, y \in Years}

WideArchive(free, a, b) ==
    LET base(y) == IF y = SliderMin
                   THEN [i \in 1..NumNames |->
                            <<NameList[i], IF i % 2 = 0 THEN "F" ELSE "M",
                              Str(PatternCount(i, a, b))>>]
                   ELSE <<>>
        more(y) == IF free # <<>> /\ free[1].year = y
                   THEN <<<<free[1].name, free[1].sex, Str(free[1].count)>>>>
                   ELSE <<>>
        all == [k \in 1..(MaxYear - SliderMin + 1) |->
                   [file |-> YobFile(SliderMin + k - 1),
                    rows |-> base(SliderMin + k - 1) \o more(SliderMin + k - 1)]]
    IN  SelectSeq(all, LAMBDA e : e.rows # <<>>)

WideArchives ==
    {WideArchive(free, a, b) : free \in WideFree, a \in 0..MaxCount, b \in 0..MaxCount}

\* ---------------------------------------------------------- state machine
VARIABLES
    archive,         \* the bytes behind names.zip, as parsed entries
    pc,              \* "start", "loaded", "failed", "rendered"; "query", ...
    error,           \* the exception that ended the last step, "" if none
    df,              \* the cached result of load_name_data
    name_input, plot_female, plot_male, year_range, summary_gender,
    filtered_df,
    tab1_out, name_df, df_f, df_m,
    total_births, summary_df,
    year_range2, refiltered   \* a second application of the filter

widgets == <<name_input, plot_female, plot_male, year_range, summary_gender>>
outputs == <<filtered_df, tab1_out, name_df, df_f, df_m, total_births, summary_df>>
again   == <<year_range2, refiltered>>
vars    == <<archive, pc, error, df, widgets, outputs, again>>

\* before the first run: the widgets hold their defaults, nothing is shown
Defaults ==
    /\ error = ""
    /\ name_input = "" /\ plot_female = TRUE /\ plot_male = TRUE
    /\ year_range = <<SliderMin, MaxYear>>
    /\ summary_gender = "Both"
    /\ filtered_df = <<>>
    /\ tab1_out = "" /\ name_df = <<>> /\ df_f = <<>> /\ df_m = <<>>
    /\ total_births = 0 /\ summary_df = <<>>
    /\ year_range2 = <<SliderMin, MaxYear>> /\ refiltered = <<>>

InitWith(A) == archive \in A /\ pc = "start" /\ df = <<>> /\ Defaults

\* df = load_name_data(): the table is cached, or the run ends in the error
LoadNameData ==
    /\ pc = "start"
    /\ LET r == load_name_data(archive)
       IN  /\ df' = r.data
           /\ error' = r.err
           /\ pc' = IF r.err = "" THEN "loaded" ELSE "failed"
    /\ UNCHANGED <<archive, widgets, outputs, again>>

\* one run of the script below line 32, on the cached table
ScriptRun(ni, pf, pm, yr, sg) ==
    /\ name_input' = ni /\ plot_female' = pf /\ plot_male' = pm
    /\ year_range' = yr /\ summary_gender' = sg
    /\ \E tie \in {"first", "last"} :
        LET f  == RangeFilter(df, yr[1], yr[2])
            t1 == Tab1(f.rows, ni, pf, pm)
            t2 == Tab2(f.rows, sg, tie)
        IN  IF f.err # ""
            THEN error' = f.err /\ UNCHANGED outputs
            ELSE /\ error' = ""
                 /\ filtered_df' = f.rows
                 /\ tab1_out' = t1.out /\ name_df' = t1.name_df
                 /\ df_f' = t1.df_f /\ df_m' = t1.df_m
                 /\ total_births' = t2.total_births /\ summary_df' = t2.summary_df
    /\ pc' = "rendered"
    /\ UNCHANGED <<archive, df, again>>

\* the slider returns its pair in order
YearRanges == {<<lo, hi>> \in Years \X Years : lo <= hi}

NameInputs == {"", "mary", "Lee"}

\* a run starts from the cached table alone
Fresh == pc = "loaded"

\* the first run: every widget at its default
FirstRun ==
    /\ Fresh
    /\ ScriptRun("", TRUE, TRUE, <<SliderMin, MaxYear>>, "Both")

\* a run with the name, the checkboxes and the slider as the user set them
TrendRun == \E ni \in NameInputs, pf \in BOOLEAN, pm \in BOOLEAN, yr \in YearRanges :
    /\ Fresh
    /\ ScriptRun(ni, pf, pm, yr, "Both")

\* a run with the slider and the summary selectbox as the user set them
SummaryRun == \E yr \in YearRanges, sg \in {"Both", "F", "M"} :
    /\ Fresh
    /\ ScriptRun("", TRUE, TRUE, yr, sg)

\* a widget changes: Streamlit discards the run's variables and runs the
\* script again; st.cache_data keeps the table
Rerun ==
    /\ pc = "rendered"
    /\ pc' = "loaded"
    /\ error' = ""
    /\ name_input' = "" /\ plot_female' = TRUE /\ plot_male' = TRUE
    /\ year_range' = <<SliderMin, MaxYear>>
    /\ summary_gender' = "Both"
    /\ filtered_df' = <<>>
    /\ tab1_out' = "" /\ name_df' = <<>> /\ df_f' = <<>> /\ df_m' = <<>>
    /\ total_births' = 0 /\ summary_df' = <<>>
    /\ UNCHANGED <<archive, df, again>>

\* start-up: the load and the first run
Init == InitWith(ArchivesOf(LoadRows))
Next == LoadNameData \/ FirstRun \/ Rerun
Spec == Init /\ [][Next]_vars

\* the trend tab
InitTrend == InitWith(ArchivesOf(TrendRows))
NextTrend == LoadNameData \/ TrendRun \/ Rerun
SpecTrend == InitTrend /\ [][NextTrend]_vars

\* the summary tab
InitSummary == InitWith(WideArchives)
NextSummary == LoadNameData \/ SummaryRun \/ Rerun
SpecSummary == InitSummary /\ [][NextSummary]_vars

\* the range filter on its own: any pair of bounds, then any second pair
FilterYears == (SliderMin - 1)..(MaxYear + 1)

FilterTables ==
    {load_name_data(a).data : a \in {x \in ArchivesOf(FilterRows) : load_name_data(x).err = ""}}

InitFilter ==
    /\ archive = <<>> /\ pc = "query" /\ df \in FilterTables /\ Defaults

ApplyFilter == \E lo \in FilterYears, hi \in FilterYears :
    /\ pc = "query"
    /\ LET f == RangeFilter(df, lo, hi)
       IN  filtered_df' = f.rows /\ error' = f.err
    /\ year_range' = <<lo, hi>>
    /\ pc' = "filtered"
    /\ UNCHANGED <<archive, df, name_input, plot_female, plot_male, summary_gender,
                   tab1_out, name_df, df_f, df_m, total_births, summary_df, again>>

ApplyAgain == \E lo \in FilterYears, hi \in FilterYears :
    /\ pc = "filtered" /\ error = ""
    /\ LET f == RangeFilter(filtered_df, lo, hi)
       IN  refiltered' = f.rows /\ error' = f.err
    /\ year_range2' = <<lo, hi>>
    /\ pc' = "refiltered"
    /\ UNCHANGED <<archive, df, widgets, outputs>>

NextFilter == ApplyFilter \/ ApplyAgain
SpecFilter == InitFilter /\ [][NextFilter]_vars

\* ================================================================= claims
\* Helpers of the statements below (not part of the model of main.py).

Loaded == pc \in {"loaded", "rendered"}

\* the sum of the counts present (not NaN) at the positions I of table d
RECURSIVE CountSum(_, _)
CountSum(d, I) ==
    IF I = {} THEN 0
    ELSE LET i == CHOOSE x \in I : TRUE
         IN  (IF d[i].count = NaN THEN 0 ELSE d[i].count) + CountSum(d, I \ {i})

\* the positions of table d in the (year, sex) group of position i
GroupOf(d, i) == {j \in 1..Len(d) : d[j].year = d[i].year /\ d[j].sex = d[i].sex}

\* the exact sum of the proportions at the positions I, NaN skipped as
\* pandas' sum skips it: a fraction <<numerator, denominator>>
RECURSIVE PropSum(_, _)
PropSum(d, I) ==
    IF I = {} THEN <<0, 1>>
    ELSE LET i == CHOOSE x \in I : TRUE
             r == PropSum(d, I \ {i})
             p == d[i].prop
         IN  IF IsNaN(p) THEN r ELSE <<p[1] * r[2] + r[1] * p[2], p[2] * r[2]>>

IsOne(f) == f[2] # 0 /\ f[1] = f[2]

\* C1: after load_name_data every record's prop is its count divided by the
\* sum of count over all the records of its (year, sex), never a partial sum.
C1_PropIsCountOverGroupTotal ==
    Loaded => \A i \in 1..Len(df) :
        /\ df[i].total_births = CountSum(df, GroupOf(df, i))
        /\ df[i].prop = Div(df[i].count, CountSum(df, GroupOf(df, i)))

\* a loaded table with a group of two records whose first is not the whole group
C1_Witness ==
    /\ pc = "loaded"
    /\ \E i, j \in 1..Len(df) :
        /\ i < j /\ j \in GroupOf(df, i)
        /\ df[i].count >= 1 /\ df[j].count >= 1
        /\ df[i].prop = <<df[i].count, df[i].count + df[j].count>>

\* a line of a per-year entry that is not <name, sex, integer count>
Malformed(line) == Len(line) # 3 \/ ParseInt(line[3]).err # ""

HasMalformedRow(arch) ==
    \E e \in 1..Len(arch) :
        /\ EndsWith(arch[e].file, TxtSuffix)
        /\ \E i \in 1..Len(arch[e].rows) : Malformed(arch[e].rows[i])

\* C2 as stated: in every (year, sex) group with a record, the proportions sum
\* to 1 and total_births is positive (here for archives of well-formed rows).
C2_Original ==
    Loaded /\ ~HasMalformedRow(archive) => \A i \in 1..Len(df) :
        /\ IsOne(PropSum(df, GroupOf(df, i)))
        /\ df[i].total_births > 0

\* C2 amended: a group with a record of count >= 1 has total_births > 0 and
\* proportions that sum to 1; a group without one has total_births = 0 and
\* only NaN proportions.
C2_Amended ==
    Loaded => \A i \in 1..Len(df) :
        IF \E j \in GroupOf(df, i) : df[j].count >= 1
        THEN IsOne(PropSum(df, GroupOf(df, i))) /\ df[i].total_births > 0
        ELSE df[i].total_births = 0 /\ IsNaN(df[i].prop)

\* a loaded table with a counted record of each sex in one year
C2_Witness ==
    /\ pc = "loaded"
    /\ \E i, k \in 1..Len(df) :
        /\ df[k].year = df[i].year /\ df[k].sex # df[i].sex
        /\ df[i].count >= 1 /\ df[k].count >= 1

\* C9: a load that reads a malformed row fails and returns no table.
C9_MalformedRowFailsLoad ==
    HasMalformedRow(archive) => ~Loaded

\* ------------------------------------------------------------- trend tab
InRange(r) == year_range[1] <= r.year /\ r.year <= year_range[2]

\* the idx labels of the records of the cached table that the trend lookup
\* is about: in the year range, of sex s, named as the input, case ignored
TrendIdx(s) ==
    {df[i].idx : i \in {j \in 1..Len(df) :
        InRange(df[j]) /\ df[j].sex = s /\ Lower(df[j].name) = Lower(name_input)}}

IdxOf(rows) == {rows[i].idx : i \in 1..Len(rows)}

AscendingYears(rows) ==
    \A i, j \in 1..Len(rows) : i < j => rows[i].year <= rows[j].year

\* the frame lineplot gets for a checked sex holds exactly the matching records
C6_Content ==
    pc = "rendered" /\ tab1_out = "plot" =>
        /\ plot_female => IdxOf(df_f) = TrendIdx("F") /\ Len(df_f) = Cardinality(TrendIdx("F"))
        /\ plot_male => IdxOf(df_m) = TrendIdx("M") /\ Len(df_m) = Cardinality(TrendIdx("M"))

\* C6: for each checked sex the sequence handed to the chart is made of
\* exactly the matching records and is in ascending year order, whatever the
\* order of the archive's entries.
C6_TrendInYearOrder ==
    pc = "rendered" /\ tab1_out = "plot" =>
        /\ C6_Content
        /\ plot_female => AscendingYears(df_f)
        /\ plot_male => AscendingYears(df_m)

NoMatch == \A i \in 1..Len(df) :
    InRange(df[i]) => Lower(df[i].name) # Lower(name_input)

\* C7: a lookup of a name that matches no record in the year range raises
\* nothing, hands empty sequences to the chart and ends in the no-data
\* outcome, whatever the two checkboxes say.
C7_NoMatchIsNoData ==
    pc = "rendered" /\ name_input # "" /\ NoMatch =>
        error = "" /\ tab1_out = "nodata" /\ df_f = <<>> /\ df_m = <<>>

\* a run with a name that matches nothing among the records in range, with a
\* checkbox set
C7_Witness ==
    /\ pc = "rendered" /\ name_input # "" /\ NoMatch
    /\ filtered_df # <<>> /\ plot_female /\ ~plot_male
    /\ tab1_out = "nodata"

\* ----------------------------------------------------------- summary tab
\* the positions of the cached table that the summary is about
SummaryPos ==
    {i \in 1..Len(df) :
        InRange(df[i]) /\ (summary_gender = "Both" \/ df[i].sex = summary_gender)}

NamePos(n) == {i \in SummaryPos : df[i].name = n}

SummaryNames == {df[i].name : i \in SummaryPos}

TableNames == {summary_df[k].name : k \in 1..Len(summary_df)}

\* C3: the grand total is the sum of count over the whole year-filtered,
\* sex-selected record set, not over the names kept in the table.
C3_GrandTotalOverWholeSelection ==
    pc = "rendered" => total_births = CountSum(df, SummaryPos)

\* a run whose table is cut at ten names and whose total exceeds the table's
C3_Witness ==
    /\ pc = "rendered" /\ Len(summary_df) = TopN
    /\ Cardinality(SummaryNames) > TopN
    /\ total_births > SumCount(summary_df)

\* C4: with Both, the table has at most one row per name, the row's total is
\* the sum of count over the year-filtered records of the name of both sexes,
\* and the rows are ranked on that total.
C4_BothCombinesSexes ==
    pc = "rendered" /\ summary_gender = "Both" =>
        /\ \A k, l \in 1..Len(summary_df) :
              k # l => summary_df[k].name # summary_df[l].name
        /\ \A k \in 1..Len(summary_df) :
              summary_df[k].count = CountSum(df, NamePos(summary_df[k].name))
        /\ \A k, l \in 1..Len(summary_df) :
              k < l => CountSum(df, NamePos(summary_df[k].name))
                         >= CountSum(df, NamePos(summary_df[l].name))

\* a Both run whose table shows a name that has records of both sexes
C4_Witness ==
    /\ pc = "rendered" /\ summary_gender = "Both"
    /\ \E k \in 1..Len(summary_df) : \E i, j \in NamePos(summary_df[k].name) :
          df[i].sex = "F" /\ df[j].sex = "M"

\* C5: the table has at most 10 rows, in non-increasing order of total, and no
\* name left out has a total greater than a name in it.
C5_TopTenSorted ==
    pc = "rendered" =>
        /\ Len(summary_df) <= TopN
        /\ \A k, l \in 1..Len(summary_df) :
              k < l => summary_df[k].count >= summary_df[l].count
        /\ \A n \in SummaryNames \ TableNames : \A k \in 1..Len(summary_df) :
              CountSum(df, NamePos(n)) <= summary_df[k].count

\* a run that leaves a name out of a table of ten rows of unequal totals
C5_Witness ==
    /\ pc = "rendered" /\ Len(summary_df) = TopN
    /\ SummaryNames \ TableNames # {}
    /\ summary_df[1].count > summary_df[TopN].count

\* ---------------------------------------------------------- range filter
\* the idx labels of the records of the cached table with lo <= year <= hi
Within(lo, hi) == {df[i].idx : i \in {j \in 1..Len(df) : lo <= df[j].year /\ df[j].year <= hi}}

\* C8: the filter returns exactly the records with lo <= year <= hi, and a
\* second filter with the same or a wider range returns the same records.
C8_FilterExactAndIdempotent ==
    /\ pc \in {"filtered", "refiltered"} =>
          /\ IdxOf(filtered_df) = Within(year_range[1], year_range[2])
          /\ Len(filtered_df) = Cardinality(IdxOf(filtered_df))
    /\ pc = "refiltered" /\ year_range2[1] <= year_range[1]
                         /\ year_range[2] <= year_range2[2] =>
          refiltered = filtered_df

\* a strictly wider second filter over a first result that kept some records
\* and dropped others
C8_Witness ==
    /\ pc = "refiltered"
    /\ year_range2[1] < year_range[1] /\ year_range[2] < year_range2[2]
    /\ refiltered # <<>> /\ Len(filtered_df) < Len(df)

====
